---- MODULE Spec2Model ----
(***************************************************************************)
(* Model of the Object Detection API (src/app.py): the startup sequence    *)
(* that copies index.html and loads the YOLO weights, and the three        *)
(* request handlers read_root, detect_objects and health_check.            *)
(*                                                                         *)
(* Representation.                                                         *)
(*  - A Python str that the code inspects (the upload's content type) is a *)
(*    sequence of one-character strings; the other strings are messages    *)
(*    that are only concatenated and are TLA+ strings.                     *)
(*  - An Optional value is a record with a flag: the engine handle         *)
(*    (present), the content type (isNone), a result's boxes (boxesNone).  *)
(*  - A scalar tensor is T(v) = [item |-> v].  Class indices are whole     *)
(*    numbers, confidences and thresholds are in hundredths (87 is 0.87),  *)
(*    geometry is in pixels.                                               *)
(*  - The upload is identified with what can be observed of it: whether    *)
(*    reading it raises, whether PIL can decode it, and what the           *)
(*    (deterministic) engine returns for the decoded image.                *)
(***************************************************************************)
EXTENDS Integers, Sequences, FiniteSets, TLC

VARIABLES phase, env, model, req

vars == <<phase, env, model, req>>

(***************************************************************************)
(* Bounds of the model.                                                    *)
(***************************************************************************)
\* Largest number of Results objects the engine returns for one call.
MaxResults == 2
\* Largest number of boxes, summed over the Results of one call.
MaxBoxes == 2
\* Number of requests that can be in flight at the same time (SpecConc).
NumReq == 2

(***************************************************************************)
(* Program constants.                                                      *)
(***************************************************************************)
\* conf=0.25 of the engine call, in hundredths.
CONF == 25
\* iou=0.45 of the engine call, in hundredths.
IOU == 45

MODEL_PATH == "best.pt"

(***************************************************************************)
(* Strings the code inspects.                                              *)
(***************************************************************************)
ImagePrefix == <<"i", "m", "a", "g", "e", "/">>

\* Variant: the prefix is looked for anywhere in the string.
Contains(s, prefix) ==
    \E k \in 0..Len(s) :
        /\ k + Len(prefix) <= Len(s)
        /\ SubSeq(s, k + 1, k + Len(prefix)) = prefix

\* str.startswith
StartsWith(s, prefix) ==
    /\ Len(s) >= Len(prefix)
    /\ SubSeq(s, 1, Len(prefix)) = prefix

CT(s) == [isNone |-> FALSE, s |-> s]
CTNone == [isNone |-> TRUE, s |-> <<>>]

CT_image_png == CT(<<"i", "m", "a", "g", "e", "/", "p", "n", "g">>)
CT_image_ == CT(<<"i", "m", "a", "g", "e", "/">>)
CT_text_plain == CT(<<"t", "e", "x", "t", "/", "p", "l", "a", "i", "n">>)
CT_x_image_ == CT(<<"x", "-", "i", "m", "a", "g", "e", "/">>)
CT_empty == CT(<<>>)

\* The content types a client can declare: UploadFile.content_type is the
\* part's Content-Type header, or None when the part has none.
ContentTypes ==
    {CT_image_png, CT_image_, CT_text_plain, CT_x_image_, CT_empty, CTNone}

(***************************************************************************)
(* The engine's data.                                                      *)
(***************************************************************************)
T(v) == [item |-> v]

\* int(t) and float(t) of a scalar tensor: the Python number it holds.
PyInt(t) == t.item
PyFloat(t) == t.item

\* One element of result.boxes: cls and conf are 1-element tensors, xywh is
\* a 1x4 tensor.
Box(c, p, g) ==
    [cls |-> <<T(c)>>, conf |-> <<T(p)>>,
     xywh |-> <<[i \in 1..Len(g) |-> T(g[i])]>>]

BoxCat == Box(2, 87, <<100, 150, 40, 60>>)
BoxDog == Box(0, 25, <<30, 20, 10, 50>>)
BoxUnknown == Box(7, 99, <<5, 6, 7, 8>>)

Boxes == {BoxCat, BoxDog, BoxUnknown}

Result(bs) == [boxesNone |-> FALSE, boxes |-> bs]
ResultNone == [boxesNone |-> TRUE, boxes |-> <<>>]

SeqsUpTo(S, n) == UNION {[1..k -> S] : k \in 0..n}

ResultOpts == {ResultNone} \cup {Result(bs) : bs \in SeqsUpTo(Boxes, MaxBoxes)}

RECURSIVE CountBoxes(_)
CountBoxes(results) ==
    IF results = <<>> THEN 0
    ELSE Len(Head(results).boxes) + CountBoxes(Tail(results))

ResultSeqs == {rs \in SeqsUpTo(ResultOpts, MaxResults) : CountBoxes(rs) <= MaxBoxes}

\* model.names of the loaded weights: a dict from class index to name.
Names3 == (0 :> "dog") @@ (1 :> "bird") @@ (2 :> "cat")
Names1 == (0 :> "dog")
NoNames == [i \in {} |-> ""]

NameTables == {Names3, Names1}

(***************************************************************************)
(* Uploads.                                                                *)
(***************************************************************************)
Upload(rd, dec, eng, rs) == [read |-> rd, decode |-> dec, engine |-> eng, results |-> rs]

NoUpload == Upload("none", "none", "none", <<>>)
UploadUnreadable == Upload("error", "none", "none", <<>>)
UploadCorrupt == Upload("ok", "error", "none", <<>>)
UploadEngineFails == Upload("ok", "ok", "error", <<>>)
UploadImage(rs) == Upload("ok", "ok", "ok", rs)

Payloads ==
    {UploadUnreadable, UploadCorrupt, UploadEngineFails}
        \cup {UploadImage(rs) : rs \in ResultSeqs}

\* The uploads and content types of the concurrent specification.
ConcPayloads ==
    {UploadCorrupt, UploadImage(<<Result(<<BoxCat>>)>>),
     UploadImage(<<Result(<<BoxDog, BoxCat>>)>>),
     UploadImage(<<Result(<<BoxUnknown>>)>>)}

ConcContentTypes == {CT_image_png, CT_text_plain, CTNone}

(***************************************************************************)
(* Exceptions and outcomes.                                                *)
(***************************************************************************)
Exc(t, m) == [type |-> t, msg |-> m]
NoExc == Exc("none", "")

Ok(v) == [ok |-> TRUE, val |-> v, exc |-> NoExc]
Raise(e) == [ok |-> FALSE, val |-> <<>>, exc |-> e]

ReadError == Exc("OSError", "read of closed file")
DecodeError == Exc("UnidentifiedImageError", "cannot identify image file")
EngineError == Exc("RuntimeError", "engine failure")
\* str(KeyError(k)) is repr(k)
KeyError(k) == Exc("KeyError", ToString(k))

(***************************************************************************)
(* Responses.                                                              *)
(***************************************************************************)
Response(k, c, b) == [kind |-> k, code |-> c, body |-> b]
NoResponse == Response("none", 0, [none |-> TRUE])

HTTPException(c, d) == Response("HTTPException", c, [detail |-> d])
\* An exception that leaves the handler: the server answers 500 itself.
Unhandled(e) == Response("unhandled", 500, [exc |-> e.type])
Json(b) == Response("json", 200, b)
FileResponse(p) == Response("file", 200, [path |-> p])

ModelNotLoaded == HTTPException(500, "Model not loaded. Please check server logs.")
BadFileType == HTTPException(400, "File must be an image (JPG, PNG, JPEG, WebP)")

(***************************************************************************)
(* Startup: module-level code of app.py.                                   *)
(***************************************************************************)
None == [present |-> FALSE, names |-> NoNames]
YOLO(names) == [present |-> TRUE, names |-> names]

\* The files the process finds when it starts, and what loading the weights
\* does: index.html and best.pt exist or not, YOLO(MODEL_PATH) raises or
\* not, and the class-name table the weights carry.
Envs ==
    [indexExists : BOOLEAN, weightsExist : BOOLEAN, loaderRaises : BOOLEAN,
     names : NameTables]

\* Variant: only the missing file leaves the handle absent.
LoadModelKeepsHandle(e) ==
    IF ~e.weightsExist THEN None ELSE YOLO(e.names)

\* model = None; try: ... model = YOLO(MODEL_PATH) except Exception: model = None
LoadModel(e) ==
    IF ~e.weightsExist THEN None
    ELSE IF e.loaderRaises THEN None
    ELSE YOLO(e.names)

IdleReq ==
    [pc |-> "idle", kind |-> "none", ct |-> CTNone, payload |-> NoUpload,
     ops |-> <<>>, calls |-> <<>>, overlap |-> FALSE, response |-> NoResponse]

Reqs == 1..NumReq
\* The sequential specification serves one request at a time.
SeqReqs == {1}

Init ==
    /\ phase = "boot"
    /\ env \in Envs
    /\ model = None
    /\ req = [r \in Reqs |-> IdleReq]

\* Import of app.py: a missing index.html raises FileNotFoundError and the
\* process never serves; otherwise the weights are loaded (or not) and the
\* server starts.
Startup ==
    /\ phase = "boot"
    /\ IF ~env.indexExists
       THEN /\ phase' = "crashed"
            /\ model' = model
       ELSE /\ phase' = "serving"
            /\ model' = LoadModel(env)
    /\ UNCHANGED <<env, req>>

(***************************************************************************)
(* detect_objects.                                                         *)
(***************************************************************************)
AttributeError == Exc("AttributeError", "'NoneType' object has no attribute 'startswith'")
TypeError == Exc("TypeError", "'NoneType' object is not callable")

\* Variant: the content-type check comes before the availability check.
PrecheckTypeFirst(m, ct) ==
    IF ct.isNone
    THEN [pass |-> FALSE, ops |-> <<"content_type_check">>,
          response |-> Unhandled(AttributeError)]
    ELSE IF ~StartsWith(ct.s, ImagePrefix)
    THEN [pass |-> FALSE, ops |-> <<"content_type_check">>, response |-> BadFileType]
    ELSE IF ~m.present
    THEN [pass |-> FALSE, ops |-> <<"content_type_check", "model_check">>,
          response |-> ModelNotLoaded]
    ELSE [pass |-> TRUE, ops |-> <<"content_type_check", "model_check">>,
          response |-> NoResponse]

\* Lines 69-76, before the try block: the availability check, then the
\* content-type check.  file.content_type.startswith raises AttributeError
\* when content_type is None, outside any try.
Precheck(m, ct) ==
    IF ~m.present
    THEN [pass |-> FALSE, ops |-> <<"model_check">>, response |-> ModelNotLoaded]
    ELSE IF ct.isNone
    THEN [pass |-> FALSE, ops |-> <<"model_check", "content_type_check">>,
          response |-> Unhandled(AttributeError)]
    ELSE IF ~StartsWith(ct.s, ImagePrefix)
    THEN [pass |-> FALSE, ops |-> <<"model_check", "content_type_check">>,
          response |-> BadFileType]
    ELSE [pass |-> TRUE, ops |-> <<"model_check", "content_type_check">>,
          response |-> NoResponse]

\* Another request is suspended at its await.
InFlight(rq, r) == \E q \in DOMAIN rq : q # r /\ rq[q].pc = "reading"

\* Variant: the upload is kept in one buffer that every request overwrites.
ContentsShared(rq, r) ==
    IF InFlight(rq, r)
    THEN rq[CHOOSE q \in DOMAIN rq : q # r /\ rq[q].pc = "reading"].payload
    ELSE rq[r].payload

\* contents = await file.read(): the bytes of this request's own upload.
Contents(rq, r) == rq[r].payload

\* The engine: a deterministic function of the decoded image.
Engine(image) ==
    IF image.engine = "ok" THEN Ok(image.results) ELSE Raise(EngineError)

\* Variant: a failed engine call is tried a second time.
InvokeEngineRetry(m, image) ==
    IF ~m.present
    THEN [calls |-> <<>>, out |-> Raise(TypeError)]
    ELSE IF Engine(image).ok
    THEN [calls |-> <<[conf |-> CONF, iou |-> IOU]>>, out |-> Engine(image)]
    ELSE [calls |-> <<[conf |-> CONF, iou |-> IOU], [conf |-> CONF, iou |-> IOU]>>,
          out |-> Engine(image)]

\* results = model(image, conf=0.25, iou=0.45): one call of the global
\* handle, with the two fixed thresholds.
InvokeEngine(m, image) ==
    IF ~m.present
    THEN [calls |-> <<>>, out |-> Raise(TypeError)]
    ELSE [calls |-> <<[conf |-> CONF, iou |-> IOU]>>, out |-> Engine(image)]

\* Variant: the geometry is converted to corner coordinates.
PredictionCorners(m, box) ==
    LET g == [i \in 1..Len(box.xywh[1]) |-> PyFloat(box.xywh[1][i])]
    IN  [class_name |-> m.names[PyInt(box.cls[1])],
         confidence |-> PyFloat(box.conf[1]),
         bbox |-> <<g[1] - g[3] \div 2, g[2] - g[4] \div 2,
                    g[1] + g[3] \div 2, g[2] + g[4] \div 2>>]

\* The dict built for one box.
Prediction(m, box) ==
    [class_name |-> m.names[PyInt(box.cls[1])],
     confidence |-> PyFloat(box.conf[1]),
     bbox |-> [i \in 1..Len(box.xywh[1]) |-> PyFloat(box.xywh[1][i])]]

\* for box in result.boxes: ... predictions.append(prediction); a class
\* index that model.names lacks raises KeyError.
RECURSIVE NormalizeBoxes(_, _, _)
NormalizeBoxes(m, boxes, predictions) ==
    IF boxes = <<>> THEN Ok(predictions)
    ELSE LET box == Head(boxes)
             cls_id == PyInt(box.cls[1])
         IN  IF cls_id \notin DOMAIN m.names
             THEN Raise(KeyError(cls_id))
             ELSE NormalizeBoxes(m, Tail(boxes), Append(predictions, Prediction(m, box)))

\* Variant: only the first element of results is read.
NormalizeResultsFirstOnly(m, results, predictions) ==
    IF results = <<>> THEN Ok(predictions)
    ELSE IF Head(results).boxesNone THEN Ok(predictions)
    ELSE NormalizeBoxes(m, Head(results).boxes, predictions)

\* for result in results: if result.boxes is not None: ...
RECURSIVE NormalizeResults(_, _, _)
NormalizeResults(m, results, predictions) ==
    IF results = <<>> THEN Ok(predictions)
    ELSE LET result == Head(results)
         IN  IF result.boxesNone
             THEN NormalizeResults(m, Tail(results), predictions)
             ELSE LET o == NormalizeBoxes(m, result.boxes, predictions)
                  IN  IF o.ok THEN NormalizeResults(m, Tail(results), o.val) ELSE o

\* Variant: the handler catches everything but KeyError.
CatchExceptionNarrow(e) ==
    IF e.type = "KeyError"
    THEN Unhandled(e)
    ELSE HTTPException(500, "Detection failed: " \o e.msg)

\* except Exception as e: raise HTTPException(500, f"Detection failed: {str(e)}")
CatchException(e) == HTTPException(500, "Detection failed: " \o e.msg)

\* The try block, lines 78-112, from the result of the read on.
TryBody(m, contents) ==
    IF contents.read # "ok"
    THEN [ops |-> <<"read">>, calls |-> <<>>, response |-> CatchException(ReadError)]
    ELSE IF contents.decode # "ok"
    THEN [ops |-> <<"read", "decode">>, calls |-> <<>>,
          response |-> CatchException(DecodeError)]
    ELSE LET inv == InvokeEngine(m, contents)
             steps == <<"read", "decode", "engine">>
         IN  IF ~inv.out.ok
             THEN [ops |-> steps, calls |-> inv.calls,
                   response |-> CatchException(inv.out.exc)]
             ELSE LET o == NormalizeResults(m, inv.out.val, <<>>)
                  IN  [ops |-> Append(steps, "normalize"), calls |-> inv.calls,
                       response |->
                           IF o.ok
                           THEN Json([predictions |-> o.val, status |-> "success"])
                           ELSE CatchException(o.exc)]

\* POST /detect, up to the await of line 80.
DetectBegin(r, ct, p) ==
    /\ phase = "serving"
    /\ req[r].pc = "idle"
    /\ LET pre == Precheck(model, ct)
           base == [IdleReq EXCEPT !.kind = "detect", !.ct = ct, !.payload = p,
                                   !.ops = pre.ops, !.overlap = InFlight(req, r)]
       IN  req' = [req EXCEPT ![r] =
                      IF pre.pass
                      THEN [base EXCEPT !.pc = "reading"]
                      ELSE [base EXCEPT !.pc = "done", !.response = pre.response]]
    /\ UNCHANGED <<phase, env, model>>

\* POST /detect, from the await of line 80 to the response.
DetectResume(r) ==
    /\ phase = "serving"
    /\ req[r].pc = "reading"
    /\ LET t == TryBody(model, Contents(req, r))
       IN  req' = [req EXCEPT ![r] =
                      [@ EXCEPT !.pc = "done", !.ops = @ \o t.ops,
                                !.calls = t.calls, !.response = t.response]]
    /\ UNCHANGED <<phase, env, model>>

(***************************************************************************)
(* health_check and read_root.                                             *)
(***************************************************************************)
\* Variant: model_loaded is reported true whatever the handle.
HealthBodyAlwaysLoaded(m) ==
    [status |-> "healthy",
     model_loaded |-> TRUE,
     model_classes |-> IF m.present THEN Cardinality(DOMAIN m.names) ELSE 0]

\* len(model.names) if model else 0
HealthBody(m) ==
    [status |-> "healthy",
     model_loaded |-> m.present,
     model_classes |-> IF m.present THEN Cardinality(DOMAIN m.names) ELSE 0]

\* GET /health
HealthCheck(r) ==
    /\ phase = "serving"
    /\ req[r].pc = "idle"
    /\ req' = [req EXCEPT ![r] =
                  [IdleReq EXCEPT !.pc = "done", !.kind = "health",
                                  !.response = Json(HealthBody(model))]]
    /\ UNCHANGED <<phase, env, model>>

\* GET /
ReadRoot(r) ==
    /\ phase = "serving"
    /\ req[r].pc = "idle"
    /\ req' = [req EXCEPT ![r] =
                  [IdleReq EXCEPT !.pc = "done", !.kind = "root",
                                  !.response = FileResponse("static/index.html")]]
    /\ UNCHANGED <<phase, env, model>>

\* The server sends the response; the request's objects are dropped.
Complete(r) ==
    /\ req[r].pc = "done"
    /\ req' = [req EXCEPT ![r] = IdleReq]
    /\ UNCHANGED <<phase, env, model>>

(***************************************************************************)
(* Specifications.                                                         *)
(***************************************************************************)
\* One client, one request at a time, every upload of the bounds.
Next ==
    \/ Startup
    \/ \E r \in SeqReqs :
          \/ \E ct \in ContentTypes, p \in Payloads : DetectBegin(r, ct, p)
          \/ DetectResume(r)
          \/ HealthCheck(r)
          \/ ReadRoot(r)
          \/ Complete(r)

Spec == Init /\ [][Next]_vars

\* NumReq requests in flight, interleaved at the await of detect_objects.
NextConc ==
    \/ Startup
    \/ \E r \in Reqs :
          \/ \E ct \in ConcContentTypes, p \in ConcPayloads : DetectBegin(r, ct, p)
          \/ DetectResume(r)
          \/ HealthCheck(r)
          \/ ReadRoot(r)
          \/ Complete(r)

SpecConc == Init /\ [][NextConc]_vars

(***************************************************************************)
(* Vocabulary of the properties.                                           *)
(***************************************************************************)
DoneDetect(r) == req[r].pc = "done" /\ req[r].kind = "detect"
DoneHealth(r) == req[r].pc = "done" /\ req[r].kind = "health"

\* The declared content type is a string that begins with the six
\* characters of "image/".
DeclaredImage(ct) ==
    /\ ~ct.isNone
    /\ Len(ct.s) >= 6
    /\ ct.s[1] = "i" /\ ct.s[2] = "m" /\ ct.s[3] = "a"
    /\ ct.s[4] = "g" /\ ct.s[5] = "e" /\ ct.s[6] = "/"

\* The raw detections of an engine output, in emission order: the boxes of
\* every result whose boxes are not None.
RECURSIVE RawDetections(_)
RawDetections(results) ==
    IF results = <<>> THEN <<>>
    ELSE (IF Head(results).boxesNone THEN <<>> ELSE Head(results).boxes)
             \o RawDetections(Tail(results))

ClassOf(box) == box.cls[1].item

IsError(resp, code, detail) ==
    /\ resp.kind = "HTTPException"
    /\ resp.code = code
    /\ resp.body = [detail |-> detail]

IsSuccess(resp) ==
    /\ resp.kind = "json"
    /\ resp.code = 200
    /\ DOMAIN resp.body = {"predictions", "status"}
    /\ resp.body.status = "success"

ModelNotLoadedText == "Model not loaded. Please check server logs."

(***************************************************************************)
(* C1                                                                      *)
(***************************************************************************)
\* C1: with the engine handle absent, every finished POST /detect, whatever
\* its content type and upload, has the 500 "Model not loaded" error, the
\* availability check is the only step the handler performed (no content-type
\* check, no read, no decode, no engine call), and no request waits on a read.
C1_ModelAbsentFailsFirst ==
    (phase = "serving" /\ ~model.present) =>
        \A r \in Reqs :
            /\ req[r].pc # "reading"
            /\ DoneDetect(r) =>
                  /\ IsError(req[r].response, 500, ModelNotLoadedText)
                  /\ req[r].ops = <<"model_check">>
                  /\ req[r].calls = <<>>

C1_Witness ==
    \E r \in Reqs :
        /\ ~model.present
        /\ DoneDetect(r)
        /\ req[r].ct = CT_text_plain
        /\ req[r].payload = UploadCorrupt
        /\ req[r].response.code = 500

(***************************************************************************)
(* C2                                                                      *)
(***************************************************************************)
\* C2: with a loaded engine, a finished POST /detect whose declared content
\* type is a string not starting with "image/" has the 400 error, and the
\* handler neither read nor decoded the upload nor called the engine.
C2_NonImageRejected ==
    \A r \in Reqs :
        (model.present /\ req[r].kind = "detect" /\ ~req[r].ct.isNone
             /\ ~DeclaredImage(req[r].ct)) =>
            /\ req[r].pc = "done"
            /\ req[r].response.kind = "HTTPException"
            /\ req[r].response.code = 400
            /\ req[r].ops = <<"model_check", "content_type_check">>
            /\ req[r].calls = <<>>

C2_Witness ==
    \E r \in Reqs :
        /\ model.present
        /\ DoneDetect(r)
        /\ req[r].ct = CT_text_plain
        /\ req[r].payload = UploadImage(<<Result(<<BoxCat>>)>>)
        /\ req[r].response.code = 400

(***************************************************************************)
(* C3                                                                      *)
(***************************************************************************)
\* C3: a successful POST /detect has one prediction per raw detection of the
\* engine's output (over every result whose boxes are not None), in emission
\* order, each carrying the confidence and geometry of the detection at the
\* same position; an output without detections gives an empty list with
\* status "success".
C3_OnePredictionPerDetection ==
    \A r \in Reqs :
        LET raw == RawDetections(req[r].payload.results)
            resp == req[r].response
        IN  /\ (DoneDetect(r) /\ resp.kind = "json") =>
                  /\ IsSuccess(resp)
                  /\ Len(resp.body.predictions) = Len(raw)
                  /\ \A i \in 1..Len(raw) :
                        /\ resp.body.predictions[i].confidence = raw[i].conf[1].item
                        /\ \A j \in 1..4 :
                              resp.body.predictions[i].bbox[j] = raw[i].xywh[1][j].item
            /\ (DoneDetect(r) /\ model.present /\ DeclaredImage(req[r].ct)
                    /\ req[r].payload.engine = "ok" /\ raw = <<>>) =>
                  resp = Json([predictions |-> <<>>, status |-> "success"])

C3_Witness ==
    \E r \in Reqs :
        /\ DoneDetect(r)
        /\ req[r].payload = UploadImage(<<Result(<<BoxDog>>), Result(<<BoxCat>>)>>)
        /\ IsSuccess(req[r].response)
        /\ Len(req[r].response.body.predictions) = 2

(***************************************************************************)
(* C4                                                                      *)
(***************************************************************************)
\* The classes of the raw detections that the name table lacks, in order.
MissingClasses(results, names) ==
    SelectSeq([i \in 1..Len(RawDetections(results)) |-> ClassOf(RawDetections(results)[i])],
              LAMBDA c : c \notin DOMAIN names)

\* The text of the first failure of the pipeline on an upload, "" if none.
FailureText(p, names) ==
    IF p.read = "error" THEN "read of closed file"
    ELSE IF p.decode = "error" THEN "cannot identify image file"
    ELSE IF p.engine = "error" THEN "engine failure"
    ELSE IF MissingClasses(p.results, names) # <<>>
    THEN ToString(Head(MissingClasses(p.results, names)))
    ELSE ""

\* C4: with a loaded engine and an image content type, a request whose read,
\* decode, engine call or normalization raises finishes with the 500 error
\* "Detection failed: " followed by the text of that exception (for a class
\* index missing from the name table, the index): never an unhandled fault,
\* never a success.
C4_FailuresBecomeDetectionFailed ==
    \A r \in Reqs :
        (DoneDetect(r) /\ model.present /\ DeclaredImage(req[r].ct)
             /\ FailureText(req[r].payload, model.names) # "") =>
            IsError(req[r].response, 500,
                    "Detection failed: " \o FailureText(req[r].payload, model.names))

C4_Witness ==
    \E r \in Reqs :
        /\ DoneDetect(r)
        /\ model.names = Names3
        /\ req[r].payload = UploadImage(<<Result(<<BoxCat, BoxUnknown>>)>>)
        /\ req[r].response.body = [detail |-> "Detection failed: 7"]

(***************************************************************************)
(* C5                                                                      *)
(***************************************************************************)
\* C5: every finished POST /detect has one of the four outcomes 200 success,
\* 400 bad content type, 500 model not loaded, 500 detection failed, and with
\* a loaded engine a content type that does not indicate an image (absent
\* included) is answered with the 400 error.
C5_FourOutcomesOnly ==
    \A r \in Reqs :
        DoneDetect(r) =>
            /\ \/ IsSuccess(req[r].response)
               \/ /\ req[r].response.kind = "HTTPException"
                  /\ req[r].response.code \in {400, 500}
            /\ (model.present /\ ~DeclaredImage(req[r].ct)) =>
                  /\ req[r].response.kind = "HTTPException"
                  /\ req[r].response.code = 400

(***************************************************************************)
(* C6                                                                      *)
(***************************************************************************)
LoadFailed(e) == ~e.weightsExist \/ e.loaderRaises

\* C6: when loading the weights failed at startup, the serving process has
\* no engine handle at any later point: every finished /detect has the
\* "Model not loaded" 500 error, none gets past the availability check, and
\* every finished /health reports model_loaded false with 0 classes.
C6_LoadFailureIsPermanent ==
    (phase = "serving" /\ LoadFailed(env)) =>
        /\ ~model.present
        /\ \A r \in Reqs :
              /\ req[r].pc # "reading"
              /\ DoneDetect(r) => IsError(req[r].response, 500, ModelNotLoadedText)
              /\ DoneHealth(r) =>
                    /\ req[r].response.body.model_loaded = FALSE
                    /\ req[r].response.body.model_classes = 0

C6_Witness ==
    \E r, q \in Reqs :
        /\ phase = "serving"
        /\ env.weightsExist /\ env.loaderRaises
        /\ DoneDetect(r) /\ req[r].ct = CT_image_png
        /\ req[r].response.code = 500
        /\ DoneHealth(q)

(***************************************************************************)
(* C7                                                                      *)
(***************************************************************************)
HealthStep(r) ==
    req[r].pc = "idle" /\ req'[r].pc = "done" /\ req'[r].kind = "health"

\* C7: a GET /health step answers 200 with status "healthy", model_loaded
\* equal to the presence of the engine handle and model_classes equal to
\* the size of the loaded class-name table (0 without a handle), and leaves
\* the handle, the process and every other request as they were.
C7_HealthReportsHandle ==
    [][\A r \in Reqs :
          HealthStep(r) =>
              /\ req'[r].response.kind = "json"
              /\ req'[r].response.code = 200
              /\ req'[r].response.body =
                    [status |-> "healthy",
                     model_loaded |-> ~LoadFailed(env),
                     model_classes |->
                         IF LoadFailed(env) THEN 0 ELSE Cardinality(DOMAIN env.names)]
              /\ model.present = ~LoadFailed(env)
              /\ req'[r].ops = <<>> /\ req'[r].calls = <<>>
              /\ model' = model /\ phase' = phase /\ env' = env
              /\ \A q \in Reqs \ {r} : req'[q] = req[q]]_vars

C7_Witness ==
    \E r \in Reqs :
        /\ DoneHealth(r)
        /\ model.present
        /\ model.names = Names3
        /\ req[r].response.body.model_classes = 3

(***************************************************************************)
(* C8                                                                      *)
(***************************************************************************)
\* C8: a finished POST /detect called the engine once if the engine is
\* loaded, the content type is an image type, the read succeeded and the
\* image decoded, and zero times otherwise; never more than once, also when
\* the call raised; every call has conf 0.25 and iou 0.45; a request still
\* waiting on its read has made no call.
C8_EngineCalledOnce ==
    \A r \in Reqs :
        /\ req[r].pc # "done" => req[r].calls = <<>>
        /\ DoneDetect(r) =>
              /\ Len(req[r].calls) =
                    (IF /\ model.present
                        /\ DeclaredImage(req[r].ct)
                        /\ req[r].payload.read = "ok"
                        /\ req[r].payload.decode = "ok"
                     THEN 1 ELSE 0)
              /\ \A i \in 1..Len(req[r].calls) :
                    req[r].calls[i] = [conf |-> 25, iou |-> 45]

C8_Witness ==
    \E r \in Reqs :
        /\ DoneDetect(r)
        /\ req[r].payload = UploadEngineFails
        /\ req[r].calls = <<[conf |-> 25, iou |-> 45]>>
        /\ req[r].response.code = 500

(***************************************************************************)
(* C9                                                                      *)
(***************************************************************************)
CatExample == UploadImage(<<Result(<<BoxCat>>)>>)

\* C9: in a successful response the i-th prediction is made of the i-th raw
\* detection alone: the name its class index has in the loaded name table,
\* its confidence, and its four geometry values in the order center_x,
\* center_y, width, height; for the one-detection example (class 2 named
\* "cat", confidence 0.87, box [100,150,40,60]) the response is exactly that
\* prediction with status "success".
C9_PredictionCopiesDetection ==
    \A r \in Reqs :
        LET raw == RawDetections(req[r].payload.results)
            resp == req[r].response
        IN  /\ (DoneDetect(r) /\ resp.kind = "json") =>
                  \A i \in 1..Len(resp.body.predictions) :
                      /\ i <= Len(raw)
                      /\ resp.body.predictions[i] =
                            [class_name |-> env.names[raw[i].cls[1].item],
                             confidence |-> raw[i].conf[1].item,
                             bbox |-> <<raw[i].xywh[1][1].item, raw[i].xywh[1][2].item,
                                        raw[i].xywh[1][3].item, raw[i].xywh[1][4].item>>]
            /\ (DoneDetect(r) /\ model.present /\ DeclaredImage(req[r].ct)
                    /\ env.names = Names3 /\ req[r].payload = CatExample) =>
                  /\ resp.code = 200
                  /\ resp.body =
                        [predictions |->
                             <<[class_name |-> "cat", confidence |-> 87,
                                bbox |-> <<100, 150, 40, 60>>]>>,
                         status |-> "success"]

C9_Witness ==
    \E r \in Reqs :
        /\ DoneDetect(r)
        /\ req[r].payload = CatExample
        /\ IsSuccess(req[r].response)
        /\ req[r].response.body.predictions[1].class_name = "cat"

(***************************************************************************)
(* C10                                                                     *)
(***************************************************************************)
\* The response of a POST /detect that runs with no other request around.
Alone(m, ct, p) ==
    IF Precheck(m, ct).pass THEN TryBody(m, p).response ELSE Precheck(m, ct).response

\* C10: under any interleaving of requests the engine handle and its name
\* table are the ones startup left, every finished POST /detect has the
\* response it would get running alone on its own content type and upload,
\* and every prediction in a response comes from a detection of that
\* request's own upload.
C10_RequestsAreIsolated ==
    phase = "serving" =>
        /\ model.present = ~LoadFailed(env)
        /\ model.present => model.names = env.names
        /\ \A r \in Reqs :
              DoneDetect(r) =>
                  /\ req[r].response =
                        Alone(IF LoadFailed(env) THEN None ELSE YOLO(env.names),
                              req[r].ct, req[r].payload)
                  /\ IsSuccess(req[r].response) =>
                        \A i \in 1..Len(req[r].response.body.predictions) :
                            \E b \in {RawDetections(req[r].payload.results)[k] :
                                        k \in 1..Len(RawDetections(req[r].payload.results))} :
                                req[r].response.body.predictions[i].confidence = b.conf[1].item

C10_Witness ==
    \E r, q \in Reqs :
        /\ r # q
        /\ DoneDetect(r) /\ DoneDetect(q)
        /\ req[r].overlap
        /\ req[r].payload = CatExample
        /\ req[q].payload = UploadImage(<<Result(<<BoxDog, BoxCat>>)>>)
        /\ IsSuccess(req[r].response) /\ IsSuccess(req[q].response)
        /\ Len(req[r].response.body.predictions) = 1
        /\ Len(req[q].response.body.predictions) = 2

====
